---- MODULE Spec2Model ----
(***************************************************************************)
(* Voice pipeline of game_partner_skill: AudioRecorder (recorder.rs),      *)
(* VoiceActivityDetector (vad.rs) and ContinuousListener                   *)
(* (continuous_listener.rs).                                               *)
(*                                                                         *)
(* Time is counted in ticks of 100 ms (the poll interval).  One element of *)
(* an audio sequence stands for the SamplesPerBlock samples one stream     *)
(* callback delivers, all of the same amplitude; amplitudes are in         *)
(* hundredths of full scale.  Every section of code that runs under the    *)
(* listener's state mutex is one action.  The thread that calls            *)
(* stop_listening is not stalled: its sleep lasts one tick and the         *)
(* statements between its sleeps take no time; the polling thread and the  *)
(* capture callback are scheduled freely, so that they interleave with     *)
(* stop_listening in every order.                                          *)
(***************************************************************************)
EXTENDS Integers, Sequences, FiniteSets, TLC

\* ------------------------------------------------------------------ bounds
MaxTime == 8
MaxPushed == 4
MaxChunk == 1
MaxFrameLen == 2
MaxBuffer == 2
MaxSamples == 2
MaxDrains == 3
MaxChannelTime == 5
MaxSeconds == 4
MaxRestartTime == 4
MaxRestartPushed == 2

\* ------------------------------------------------------- program constants
TicksPerSec == 10
process_interval == 1
TARGET_RATE == 16000
FlushMinDuration == 3
IdleTimeoutSecs == 2
I16Scale == 32767

SamplesPerBlock == TARGET_RATE \div TicksPerSec

NoTime == 0 - 1
Amplitudes == {10, 50}
TimeSteps == {1}
\* One polling task per behaviour: the listener is started at most once.
Sessions == {1}
\* Two polling tasks where a listener is stopped and started again.
RestartSessions == {1, 2}

\* Samples handed to the resampler on its own, in thousandths of full scale:
\* inside, at and beyond the range [-1, 1].
SampleUnit == 1000
ResamplerSamples == {0 - 1500, 0 - 1000, 0 - 500, 0 - 1, 0, 1, 500, 1000, 1500}
ResamplerInputs ==
    UNION {[1..n -> ResamplerSamples] : n \in 0..MaxSamples}
ResamplerRates == {TARGET_RATE, TARGET_RATE \div 2}

\* Frames and configurations a detector is driven with on its own: frames of
\* 0 to MaxFrameLen blocks, with amplitudes at and above the lower threshold
\* and below and above the higher one.
DetectorFrames ==
    UNION {[1..n -> Amplitudes] : n \in 0..MaxFrameLen}
DetectorConfigs ==
    [volume_threshold : {10, 30},
     silence_duration_secs : {1, 2},
     min_speech_duration_secs : {1, 3},
     max_speech_duration_secs : {4}]

\* Configurations of a detector that is driven over whole seconds: silence of
\* 0.5 s and of VadConfig::default's 1.5 s, utterances of at most 2 s.
LongConfigs ==
    [volume_threshold : {10},
     silence_duration_secs : {5, 15},
     min_speech_duration_secs : {3},
     max_speech_duration_secs : {20}]

\* VadConfig values the listener is constructed with (durations in ticks).
VadConfigs ==
    [volume_threshold : {10},
     silence_duration_secs : {2},
     min_speech_duration_secs : {1, 3, 5},
     max_speech_duration_secs : {4}]

VARIABLES
    now,            \* Instant::now()
    vad_config,     \* ContinuousListener.vad_config
    vad,            \* ListenerStateInternal.vad
    is_listening,   \* ListenerStateInternal.is_listening
    listen_task,    \* ContinuousListener.listen_task (0 = None, else the session)
    event_tx,       \* ContinuousListener.event_tx (0 = None, else the channel)
    sessions,       \* number of polling tasks spawned so far
    loop,           \* per spawned task: position and locals of listen_loop_blocking
    rec,            \* per spawned task: its AudioRecorder
    stop,           \* the caller's position and locals inside stop_listening
    events,         \* everything sent on the event channels, in send order
    pushed,         \* number of frames the capture device has delivered
    last_call,      \* the last call of the listener's API, and what it did
    ret,            \* the last call made on a single object, and what it returned
    mutex,          \* the holder of each std::sync::Mutex
    thread,         \* position of each thread in the code between its lock calls
    drained,        \* the chunks take_audio_data has returned, oldest first
    rx,             \* per channel: number of events its receiver has taken
    callback        \* the events handed to event_callback, oldest first

\* The variables the listener's actions leave alone: they belong to the
\* behaviours of one object (detector, recorder, resampler), of the locks and
\* of the consumer of the event channel.
aux == <<ret, mutex, thread, drained, rx, callback>>

vars == <<now, vad, is_listening, vad_config, listen_task, event_tx, sessions,
          loop, rec, stop, events, pushed, last_call, aux>>

None == [some |-> FALSE]
Some(x) == [some |-> TRUE, val |-> x]

\* ---------------------------------------------------------------- vad.rs

NewVad ==
    [state |-> "Idle", speech_start_time |-> NoTime,
     last_voice_time |-> NoTime, audio_buffer |-> <<>>]

RECURSIVE SumSquares(_)
SumSquares(samples) ==
    IF samples = <<>> THEN 0
    ELSE Head(samples) * Head(samples) + SumSquares(Tail(samples))

\* The comparison with the threshold made inclusive.
RmsAbove_Inclusive(samples, threshold) ==
    /\ samples # <<>>
    /\ SumSquares(samples) >= threshold * threshold * Len(samples)

\* rms > threshold, with rms = sqrt(sum(s^2) / len) and rms = 0 for no samples
RmsAbove(samples, threshold) ==
    /\ samples # <<>>
    /\ SumSquares(samples) > threshold * threshold * Len(samples)

\* reset that forgets the onset timer.
reset_KeepsOnset(v) == [NewVad EXCEPT !.speech_start_time = v.speech_start_time]

reset(v) == NewVad

\* recording_duration that does not test whether an utterance has begun.
recording_duration_Unchecked(v, t) == t - v.speech_start_time

recording_duration(v, t) ==
    IF v.speech_start_time # NoTime THEN t - v.speech_start_time ELSE 0

buffer_size(v) == Len(v.audio_buffer)

\* take_audio_buffer that hands out a copy and keeps the samples.
take_audio_buffer_Clones(v) == [vad |-> v, buffer |-> v.audio_buffer]

\* std::mem::take: the detector with its buffer emptied, and the old buffer.
take_audio_buffer(v) ==
    [vad |-> [v EXCEPT !.audio_buffer = <<>>], buffer |-> v.audio_buffer]

\* check_min_speech_duration that accepts every utterance.
check_min_speech_duration_Always(v, cfg, t) == v.speech_start_time # NoTime

check_min_speech_duration(v, cfg, t) ==
    IF v.speech_start_time # NoTime
    THEN ~ (t - v.speech_start_time < cfg.min_speech_duration_secs)
    ELSE FALSE

\* The onset that does not set the last-loud time.
begin_speech_NoLastVoice(audio_chunk, t) ==
    [state |-> "Speaking", speech_start_time |-> t,
     last_voice_time |-> NoTime, audio_buffer |-> audio_chunk]

\* The onset that starts the buffer empty: the triggering frame is lost.
begin_speech_DropsFrame(audio_chunk, t) ==
    [state |-> "Speaking", speech_start_time |-> t,
     last_voice_time |-> t, audio_buffer |-> <<>>]

\* process_audio, lines 115-119 and 168-172: a frame above the threshold starts
\* an utterance; the buffer is cleared and restarted with that frame.
begin_speech(audio_chunk, t) ==
    [state |-> "Speaking", speech_start_time |-> t,
     last_voice_time |-> t, audio_buffer |-> audio_chunk]

\* The new utterance queued behind the samples of the finished one.
restart_speech_Queues(v, audio_chunk, t) ==
    [state |-> "Speaking", speech_start_time |-> t,
     last_voice_time |-> t, audio_buffer |-> v.audio_buffer \o audio_chunk]

\* process_audio, lines 165-173: a loud frame in Processing clears the buffer
\* of the finished utterance and starts the next one.
restart_speech(v, audio_chunk, t) == begin_speech(audio_chunk, t)

\* The cap on the length of an utterance left out.
speech_too_long_Never(v, cfg, t) == FALSE

\* process_audio, lines 135-137 and 145
speech_too_long(v, cfg, t) ==
    LET speech_duration ==
            IF v.speech_start_time # NoTime THEN t - v.speech_start_time ELSE 0
    IN  speech_duration > cfg.max_speech_duration_secs

\* process_audio, lines 140-142 and 153
silence_too_long(v, cfg, t) ==
    LET silence_duration ==
            IF v.last_voice_time # NoTime THEN t - v.last_voice_time ELSE 0
    IN  silence_duration > cfg.silence_duration_secs

\* The accumulation that keeps loud frames only.
accumulate_LoudOnly(v, audio_chunk, loud, t) ==
    IF loud
    THEN [v EXCEPT !.audio_buffer = v.audio_buffer \o audio_chunk,
                   !.last_voice_time = t]
    ELSE v

\* process_audio, lines 128-133: while Speaking every frame is appended, and
\* a loud one renews the last-loud time, before any end condition is tested.
accumulate(v, audio_chunk, loud, t) ==
    [v EXCEPT !.audio_buffer = v.audio_buffer \o audio_chunk,
              !.last_voice_time = IF loud THEN t ELSE v.last_voice_time]

\* The end of an utterance that forgets to leave Speaking.
finalize_StaysSpeaking(a, cfg, t) ==
    [vad |-> a, ret |-> check_min_speech_duration(a, cfg, t)]

\* process_audio, lines 148-149 and 156-157: the state becomes Processing and
\* the call returns check_min_speech_duration().
finalize(a, cfg, t) ==
    LET fin == [a EXCEPT !.state = "Processing"]
    IN  [vad |-> fin, ret |-> check_min_speech_duration(fin, cfg, t)]

\* The idle timeout left out.
idle_timed_out_Never(v, t) == FALSE

\* process_audio, lines 176-178: elapsed is measured from speech_start_time,
\* and as_secs() drops the fraction of a second.
idle_timed_out(v, t) ==
    /\ v.speech_start_time # NoTime
    /\ (t - v.speech_start_time) \div TicksPerSec > IdleTimeoutSecs

\* The new detector and the returned flag.
process_audio(v, cfg, audio_chunk, t) ==
    LET loud == RmsAbove(audio_chunk, cfg.volume_threshold)
    IN  CASE v.state = "Idle" ->
               [vad |-> IF loud THEN begin_speech(audio_chunk, t) ELSE v,
                ret |-> FALSE]
          [] v.state = "Speaking" ->
               LET a == accumulate(v, audio_chunk, loud, t)
               IN  IF speech_too_long(a, cfg, t)
                   THEN finalize(a, cfg, t)
                   ELSE IF silence_too_long(a, cfg, t)
                   THEN finalize(a, cfg, t)
                   ELSE [vad |-> a, ret |-> FALSE]
          [] v.state = "Processing" ->
               IF loud THEN [vad |-> restart_speech(v, audio_chunk, t), ret |-> FALSE]
               ELSE IF idle_timed_out(v, t)
                    THEN [vad |-> reset(v), ret |-> FALSE]
                    ELSE [vad |-> v, ret |-> FALSE]

\* ------------------------------------------------- continuous_listener.rs

\* (audio_samples.len() as f32 / duration) as u32, duration in seconds
\* for blocks blocks of samples
actual_sample_rate(blocks, duration) ==
    (blocks * SamplesPerBlock * TicksPerSec) \div duration

\* s.clamp(-1.0, 1.0)
clamp(s) ==
    IF s < 0 - SampleUnit THEN 0 - SampleUnit
    ELSE IF s > SampleUnit THEN SampleUnit ELSE s

\* (s.clamp(-1.0, 1.0) * 32767.0) as i16: the cast drops the fraction
sample_i16(s) ==
    LET x == clamp(s) * I16Scale
    IN  IF x >= 0 THEN x \div SampleUnit ELSE 0 - ((0 - x) \div SampleUnit)

\* The two bytes of an i16 with the high byte first.
to_le_bytes_HighFirst(v) ==
    LET u == IF v < 0 THEN v + 65536 ELSE v
    IN  <<u \div 256, u % 256>>

\* i16::to_le_bytes: two's complement, low byte first
to_le_bytes(v) ==
    LET u == IF v < 0 THEN v + 65536 ELSE v
    IN  <<u % 256, u \div 256>>

\* resample_to_16khz, lines 456-466: the direct conversion of equal rates
RECURSIVE pcm_data(_)
pcm_data(samples) ==
    IF samples = <<>> THEN <<>>
    ELSE to_le_bytes(sample_i16(Head(samples))) \o pcm_data(Tail(samples))

\* Results resample_to_16khz can return: the direct conversion cannot fail,
\* the sinc resampler's constructor and process call can.
resample_to_16khz(blocks, from_rate) ==
    IF from_rate = TARGET_RATE THEN {"Ok"} ELSE {"Ok", "Err"}

\* The request event.  pcm_data is represented by the number of blocks that
\* were resampled into it; by and onset record the sender and the utterance.
AliyunRecognizeRequest(chan, by, blocks, rate, duration, onset) ==
    [type |-> "AliyunRecognizeRequest", chan |-> chan, by |-> by,
     pcm_blocks |-> blocks, sample_rate |-> rate, duration_secs |-> duration,
     onset |-> onset]

NewLoop == [pc |-> "none", wake |-> 0, audio_chunk |-> <<>>, taken |-> None]
NewRecorder == [stream |-> FALSE, audio_buffer |-> <<>>]
NewStop ==
    [pc |-> "idle", buffer_size |-> 0, recording_duration |-> 0,
     should_trigger_recognition |-> None, wake |-> 0]

NoCall == [op |-> "none"]
NewMutex == [state |-> "free", audio_buffer |-> "free"]
NewThreads == [t \in {"caller", "loop", "callback"} |->
                  [pc |-> "idle", data |-> <<>>]]

AuxInit ==
    /\ ret = NoCall
    /\ mutex = NewMutex
    /\ thread = NewThreads
    /\ drained = <<>>
    /\ rx = [s \in Sessions |-> 0]
    /\ callback = <<>>

\* ContinuousListener::new, for the configuration in vad_config
Constructed ==
    /\ now = 0
    /\ vad = NewVad
    /\ is_listening = FALSE
    /\ listen_task = 0
    /\ event_tx = 0
    /\ sessions = 0
    /\ loop = [s \in Sessions |-> NewLoop]
    /\ rec = [s \in Sessions |-> NewRecorder]
    /\ stop = NewStop
    /\ events = <<>>
    /\ pushed = 0
    /\ last_call = "new"
    /\ AuxInit

Init ==
    /\ vad_config \in VadConfigs
    /\ Constructed

\* The listener constructed with the minimum of VadConfigDto's default, 0.3 s.
DefaultInit ==
    /\ vad_config \in {c \in VadConfigs :
                          c.min_speech_duration_secs = FlushMinDuration}
    /\ Constructed

\* ContinuousListener::get_state: the snapshot taken under the state mutex.
get_state ==
    [vad_state |-> vad.state,
     is_listening |-> is_listening,
     recording_duration |-> recording_duration(vad, now),
     buffer_size |-> buffer_size(vad)]

\* Time passes.
AdvanceTime(d) ==
    /\ now + d <= MaxTime
    /\ stop.pc \notin {"send", "abort"}
    /\ stop.pc = "clearflag" => now < stop.wake
    /\ now' = now + d
    /\ UNCHANGED <<aux, vad, is_listening, vad_config, listen_task, event_tx,
                   sessions, loop, rec, stop, events, pushed, last_call>>

\* start_listening with the already-running check made after the section
\* under the state mutex instead of before it.
start_listening_LateCheck ==
    /\ stop.pc = "idle"
    /\ last_call' = IF listen_task # 0 THEN "start_noop" ELSE "start"
    /\ is_listening' = TRUE
    /\ vad' = reset(vad)
    /\ IF listen_task # 0
       THEN UNCHANGED <<aux, now, vad_config, listen_task, event_tx,
                        sessions, loop, rec, stop, events, pushed>>
       ELSE /\ sessions + 1 \in DOMAIN loop
            /\ sessions' = sessions + 1
            /\ event_tx' = sessions + 1
            /\ loop' = [loop EXCEPT ![sessions + 1].pc = "open"]
            /\ listen_task' = sessions + 1
            /\ UNCHANGED <<aux, now, vad_config, rec, stop, events, pushed>>

\* start_listening that leaves the detector as the last session left it.
start_listening_NoReset ==
    /\ stop.pc = "idle"
    /\ last_call' = IF listen_task # 0 THEN "start_noop" ELSE "start"
    /\ IF listen_task # 0
       THEN UNCHANGED <<aux, now, vad, is_listening, vad_config, listen_task, event_tx,
                        sessions, loop, rec, stop, events, pushed>>
       ELSE /\ sessions + 1 \in DOMAIN loop
            /\ sessions' = sessions + 1
            /\ event_tx' = sessions + 1
            /\ is_listening' = TRUE
            /\ loop' = [loop EXCEPT ![sessions + 1].pc = "open"]
            /\ listen_task' = sessions + 1
            /\ UNCHANGED <<aux, now, vad, vad_config, rec, stop, events, pushed>>

\* ContinuousListener::start_listening.  Only the section under the state
\* mutex touches shared state, so the call is one step.
start_listening ==
    /\ stop.pc = "idle"
    /\ last_call' = IF listen_task # 0 THEN "start_noop" ELSE "start"
    /\ IF listen_task # 0
       THEN UNCHANGED <<aux, now, vad, is_listening, vad_config, listen_task, event_tx,
                        sessions, loop, rec, stop, events, pushed>>
       ELSE /\ sessions + 1 \in DOMAIN loop
            /\ sessions' = sessions + 1
            /\ event_tx' = sessions + 1
            /\ is_listening' = TRUE
            /\ vad' = reset(vad)
            /\ loop' = [loop EXCEPT ![sessions + 1].pc = "open"]
            /\ listen_task' = sessions + 1
            /\ UNCHANGED <<aux, now, vad_config, rec, stop, events, pushed>>

\* stop_listening whose early return comes after the take of the buffer.
stop_not_running_Takes ==
    /\ stop.pc = "idle"
    /\ event_tx = 0
    /\ last_call' = "stop_noop"
    /\ vad' = take_audio_buffer(vad).vad
    /\ UNCHANGED <<aux, now, is_listening, vad_config, listen_task, event_tx,
                   sessions, loop, rec, stop, events, pushed>>

\* stop_listening, lines 150-155: nothing to stop.
stop_not_running ==
    /\ stop.pc = "idle"
    /\ event_tx = 0
    /\ last_call' = "stop_noop"
    /\ UNCHANGED <<aux, now, vad, is_listening, vad_config, listen_task, event_tx,
                   sessions, loop, rec, stop, events, pushed>>

\* stop_listening, lines 157-197: the flush section under the state mutex
\* (take the buffer, compute the rate, resample).
StopFlush(r) ==
    /\ stop.pc = "idle"
    /\ event_tx # 0
    /\ last_call' = "stop"
    /\ LET size == buffer_size(vad)
           duration == recording_duration(vad, now)
           tk == take_audio_buffer(vad)
           rate == actual_sample_rate(Len(tk.buffer), duration)
           locals == [stop EXCEPT !.pc = "send", !.buffer_size = size,
                                  !.recording_duration = duration]
       IN  IF size > 0 /\ duration >= FlushMinDuration
           THEN /\ r \in resample_to_16khz(tk.buffer, rate)
                /\ vad' = tk.vad
                /\ stop' = [locals EXCEPT !.should_trigger_recognition =
                               IF r = "Ok"
                               THEN Some([blocks |-> Len(tk.buffer), rate |-> rate,
                                          duration |-> duration,
                                          onset |-> vad.speech_start_time])
                               ELSE None]
           ELSE /\ r = "Ok"
                /\ vad' = vad
                /\ stop' = [locals EXCEPT !.should_trigger_recognition = None]
    /\ UNCHANGED <<aux, now, is_listening, vad_config, listen_task, event_tx,
                   sessions, loop, rec, events, pushed>>

\* stop_listening, lines 199-236: send the request, then sleep 100 ms.
StopSend ==
    /\ stop.pc = "send"
    /\ LET req == stop.should_trigger_recognition
       IN  IF req.some /\ event_tx # 0
           THEN /\ events' = Append(events,
                      AliyunRecognizeRequest(event_tx, "stop", req.val.blocks,
                          req.val.rate, req.val.duration, req.val.onset))
                /\ stop' = [stop EXCEPT !.pc = "clearflag",
                                        !.wake = now + process_interval]
           ELSE /\ events' = events
                /\ stop' = [stop EXCEPT !.pc = "clearflag", !.wake = now]
    /\ UNCHANGED <<aux, now, vad, is_listening, vad_config, listen_task, event_tx,
                   sessions, loop, rec, pushed, last_call>>

\* stop_listening that clears the running flag before it sends the request.
StopClearFlag_BeforeSend ==
    /\ stop.pc \in {"send", "clearflag"}
    /\ stop.pc = "clearflag" => now >= stop.wake
    /\ is_listening' = FALSE
    /\ stop' = IF stop.pc = "send" THEN stop
               ELSE [stop EXCEPT !.pc = "abort", !.wake = 0]
    /\ UNCHANGED <<aux, now, vad, vad_config, listen_task, event_tx, sessions, loop,
                   rec, events, pushed, last_call>>

\* stop_listening, lines 238-242
StopClearFlag ==
    /\ stop.pc = "clearflag"
    /\ now >= stop.wake
    /\ is_listening' = FALSE
    /\ stop' = [stop EXCEPT !.pc = "abort", !.wake = 0]
    /\ UNCHANGED <<aux, now, vad, vad_config, listen_task, event_tx, sessions, loop,
                   rec, events, pushed, last_call>>

\* stop_listening, lines 244-252.  abort() cancels the async task that awaits
\* the blocking closure: a closure that is already running keeps running, one
\* that was never spawned (the task was not polled yet) never starts.  Then the
\* sender is dropped.  Both fields belong to the caller alone.
StopAbort(started) ==
    /\ stop.pc = "abort"
    /\ listen_task' = 0
    /\ IF listen_task # 0 /\ loop[listen_task].pc = "open" /\ ~started
       THEN loop' = [loop EXCEPT ![listen_task].pc = "aborted"]
       ELSE started /\ loop' = loop
    /\ event_tx' = 0
    /\ stop' = NewStop
    /\ UNCHANGED <<aux, now, vad, is_listening, vad_config, sessions, rec,
                   events, pushed, last_call>>

\* listen_loop_blocking, lines 289-301: create the recorder and start the
\* stream; either can fail, and the error ends the task.
LoopOpen(s, ok) ==
    /\ loop[s].pc = "open"
    /\ IF ok
       THEN /\ rec' = [rec EXCEPT ![s] = [stream |-> TRUE, audio_buffer |-> <<>>]]
            /\ loop' = [loop EXCEPT ![s].pc = "check"]
       ELSE /\ rec' = rec
            /\ loop' = [loop EXCEPT ![s].pc = "failed"]
    /\ UNCHANGED <<aux, now, vad, is_listening, vad_config, listen_task, event_tx,
                   sessions, stop, events, pushed, last_call>>

\* The stream callback of AudioRecorder::start_recording appends one frame.
CaptureCallback(s, a) ==
    /\ rec[s].stream
    /\ pushed < MaxPushed
    /\ Len(rec[s].audio_buffer) < MaxChunk
    /\ rec' = [rec EXCEPT ![s].audio_buffer = Append(@, a)]
    /\ pushed' = pushed + 1
    /\ UNCHANGED <<aux, now, vad, is_listening, vad_config, listen_task, event_tx,
                   sessions, loop, stop, events, last_call>>

\* listen_loop_blocking, lines 306-316 and 428-431: read the running flag;
\* leave the loop and stop the recorder, or go to sleep for one interval.
LoopCheck(s) ==
    /\ loop[s].pc = "check"
    /\ IF ~is_listening
       THEN /\ loop' = [loop EXCEPT ![s].pc = "done"]
            /\ rec' = [rec EXCEPT ![s].stream = FALSE]
       ELSE /\ loop' = [loop EXCEPT ![s].pc = "sleep",
                                    ![s].wake = now + process_interval]
            /\ rec' = rec
    /\ UNCHANGED <<aux, now, vad, is_listening, vad_config, listen_task, event_tx,
                   sessions, stop, events, pushed, last_call>>

\* The drain without the test for an empty chunk: every tick reaches the VAD.
LoopDrain_NoEmptyCheck(s) ==
    /\ loop[s].pc = "sleep"
    /\ now >= loop[s].wake
    /\ rec' = [rec EXCEPT ![s].audio_buffer = <<>>]
    /\ loop' = [loop EXCEPT ![s].pc = "vad", ![s].wake = 0,
                            ![s].audio_chunk = rec[s].audio_buffer]
    /\ UNCHANGED <<aux, now, vad, is_listening, vad_config, listen_task, event_tx,
                   sessions, stop, events, pushed, last_call>>

\* listen_loop_blocking, lines 318-324: AudioRecorder::take_audio_data
LoopDrain(s) ==
    /\ loop[s].pc = "sleep"
    /\ now >= loop[s].wake
    /\ rec' = [rec EXCEPT ![s].audio_buffer = <<>>]
    /\ loop' = [loop EXCEPT
                   ![s].pc = IF rec[s].audio_buffer = <<>> THEN "check" ELSE "vad",
                   ![s].wake = 0,
                   ![s].audio_chunk = rec[s].audio_buffer]
    /\ UNCHANGED <<aux, now, vad, is_listening, vad_config, listen_task, event_tx,
                   sessions, stop, events, pushed, last_call>>

\* The test for a changed state left out: an event on every tick.
state_changed_Always(old_vad_state, new_vad_state) == TRUE

\* listen_loop_blocking, line 363
state_changed(old_vad_state, new_vad_state) == old_vad_state # new_vad_state

\* listen_loop_blocking, lines 327-385: the section under the state mutex.
LoopVad(s) ==
    /\ loop[s].pc = "vad"
    /\ LET old_vad_state == vad.state
           p == process_audio(vad, vad_config, loop[s].audio_chunk, now)
           new_vad_state == p.vad.state
           ended == old_vad_state = "Speaking" /\ new_vad_state = "Processing"
           tk == take_audio_buffer(p.vad)
           duration == recording_duration(p.vad, now)
           audio_data_for_recognition ==
               IF ended /\ Len(tk.buffer) > 0 /\ duration >= FlushMinDuration
               THEN Some([blocks |-> Len(tk.buffer), duration |-> duration,
                          onset |-> p.vad.speech_start_time])
               ELSE None
       IN  /\ vad' = IF ended THEN tk.vad ELSE p.vad
           /\ events' =
                  IF /\ state_changed(old_vad_state, new_vad_state)
                     /\ new_vad_state = "Speaking"
                  THEN Append(events, [type |-> "SpeechStarted", chan |-> s])
                  ELSE IF /\ state_changed(old_vad_state, new_vad_state)
                          /\ new_vad_state = "Processing"
                  THEN Append(events, [type |-> "SpeechEnded", chan |-> s,
                                       duration_secs |-> duration])
                  ELSE events
           /\ loop' = [loop EXCEPT
                  ![s].pc = IF audio_data_for_recognition.some
                            THEN "resample" ELSE "check",
                  ![s].audio_chunk = <<>>,
                  ![s].taken = audio_data_for_recognition]
    /\ UNCHANGED <<aux, now, is_listening, vad_config, listen_task, event_tx, sessions,
                   rec, stop, pushed, last_call>>

\* The polling loop with the resample error propagated by `?`: the loop ends.
LoopResample_Fatal(s, r) ==
    /\ loop[s].pc = "resample"
    /\ LET blocks == loop[s].taken.val.blocks
           duration == loop[s].taken.val.duration
           rate == actual_sample_rate(blocks, duration)
       IN  /\ r \in resample_to_16khz(blocks, rate)
           /\ events' =
                  IF r = "Ok"
                  THEN Append(events,
                           AliyunRecognizeRequest(s, "loop", blocks, rate,
                               duration, loop[s].taken.val.onset))
                  ELSE events
    /\ loop' = [loop EXCEPT ![s].pc = IF r = "Ok" THEN "check" ELSE "done",
                            ![s].taken = None]
    /\ rec' = [rec EXCEPT ![s].stream = IF r = "Ok" THEN @ ELSE FALSE]
    /\ UNCHANGED <<aux, now, vad, is_listening, vad_config, listen_task, event_tx,
                   sessions, stop, pushed, last_call>>

\* listen_loop_blocking, lines 387-425: resample the taken audio and send it.
LoopResample(s, r) ==
    /\ loop[s].pc = "resample"
    /\ LET blocks == loop[s].taken.val.blocks
           duration == loop[s].taken.val.duration
           rate == actual_sample_rate(blocks, duration)
       IN  /\ r \in resample_to_16khz(blocks, rate)
           /\ events' =
                  IF r = "Ok"
                  THEN Append(events,
                           AliyunRecognizeRequest(s, "loop", blocks, rate,
                               duration, loop[s].taken.val.onset))
                  ELSE events
    /\ loop' = [loop EXCEPT ![s].pc = "check", ![s].taken = None]
    /\ UNCHANGED <<aux, now, vad, is_listening, vad_config, listen_task, event_tx,
                   sessions, rec, stop, pushed, last_call>>

Next ==
    \/ \E d \in TimeSteps : AdvanceTime(d)
    \/ start_listening
    \/ stop_not_running
    \/ \E r \in {"Ok", "Err"} : StopFlush(r)
    \/ StopSend
    \/ StopClearFlag
    \/ \E started \in BOOLEAN : StopAbort(started)
    \/ \E s \in Sessions, ok \in BOOLEAN : LoopOpen(s, ok)
    \/ \E s \in Sessions, a \in Amplitudes : CaptureCallback(s, a)
    \/ \E s \in Sessions : LoopCheck(s)
    \/ \E s \in Sessions : LoopDrain(s)
    \/ \E s \in Sessions : LoopVad(s)
    \/ \E s \in Sessions, r \in {"Ok", "Err"} : LoopResample(s, r)

Spec == Init /\ [][Next]_vars

\* ------------------------------- the listener stopped and started again

\* ContinuousListener::new with VadConfigDto's default minimum; room for the
\* polling tasks of two sessions.
RestartInit ==
    /\ vad_config \in {c \in VadConfigs :
                          c.min_speech_duration_secs = FlushMinDuration}
    /\ now = 0
    /\ vad = NewVad
    /\ is_listening = FALSE
    /\ listen_task = 0
    /\ event_tx = 0
    /\ sessions = 0
    /\ loop = [s \in RestartSessions |-> NewLoop]
    /\ rec = [s \in RestartSessions |-> NewRecorder]
    /\ stop = NewStop
    /\ events = <<>>
    /\ pushed = 0
    /\ last_call = "new"
    /\ ret = NoCall
    /\ mutex = NewMutex
    /\ thread = NewThreads
    /\ drained = <<>>
    /\ rx = [s \in RestartSessions |-> 0]
    /\ callback = <<>>

\* The steps of the listener and of the polling task of either session, over
\* MaxRestartTime ticks and MaxRestartPushed frames.
RestartNext ==
    /\ \/ \E d \in TimeSteps : AdvanceTime(d)
       \/ start_listening
       \/ stop_not_running
       \/ \E r \in {"Ok", "Err"} : StopFlush(r)
       \/ StopSend
       \/ StopClearFlag
       \/ \E started \in BOOLEAN : StopAbort(started)
       \/ \E s \in RestartSessions, ok \in BOOLEAN : LoopOpen(s, ok)
       \/ \E s \in RestartSessions, a \in Amplitudes : CaptureCallback(s, a)
       \/ \E s \in RestartSessions : LoopCheck(s)
       \/ \E s \in RestartSessions : LoopDrain(s)
       \/ \E s \in RestartSessions : LoopVad(s)
       \/ \E s \in RestartSessions, r \in {"Ok", "Err"} : LoopResample(s, r)
    /\ now' <= MaxRestartTime
    /\ pushed' <= MaxRestartPushed

RestartSpec == RestartInit /\ [][RestartNext]_vars

\* ------------------------------------------ the detector on its own (vad.rs)

listener_vars ==
    <<is_listening, listen_task, event_tx, sessions, loop, rec, stop, events,
      pushed, last_call>>

\* VoiceActivityDetector::new with any of DetectorConfigs
DetectorInit ==
    /\ vad_config \in DetectorConfigs
    /\ Constructed

\* One call of process_audio at the current time.
CallProcessAudio(audio_chunk) ==
    /\ Len(vad.audio_buffer) + Len(audio_chunk) <= MaxBuffer
    /\ LET p == process_audio(vad, vad_config, audio_chunk, now)
       IN  /\ vad' = p.vad
           /\ ret' = [op |-> "process_audio", pre |-> vad.state,
                      loud |-> RmsAbove(audio_chunk, vad_config.volume_threshold),
                      dropped |-> IF p.vad.audio_buffer = vad.audio_buffer \o audio_chunk
                                  THEN 0 ELSE Len(vad.audio_buffer),
                      val |-> p.ret]
    /\ UNCHANGED <<listener_vars, now, vad_config, mutex, thread, drained, rx,
                   callback>>

\* One call of take_audio_buffer.
CallTakeAudioBuffer ==
    /\ LET tk == take_audio_buffer(vad)
       IN  /\ vad' = tk.vad
           /\ ret' = [op |-> "take_audio_buffer", pre |-> vad.state,
                      val |-> tk.buffer]
    /\ UNCHANGED <<listener_vars, now, vad_config, mutex, thread, drained, rx,
                   callback>>

\* One call of reset.
CallReset ==
    /\ vad' = reset(vad)
    /\ ret' = [op |-> "reset", pre |-> vad.state]
    /\ UNCHANGED <<listener_vars, now, vad_config, mutex, thread, drained, rx,
                   callback>>

DetectorNext ==
    \/ \E d \in TimeSteps : AdvanceTime(d)
    \/ \E audio_chunk \in DetectorFrames : CallProcessAudio(audio_chunk)
    \/ CallTakeAudioBuffer
    \/ CallReset

DetectorSpec == DetectorInit /\ [][DetectorNext]_vars

\* ------------------------ the detector driven over whole seconds (vad.rs)

\* VoiceActivityDetector::new with any of LongConfigs
SecondsInit ==
    /\ vad_config \in LongConfigs
    /\ Constructed

\* One second passes.
AdvanceSecond ==
    /\ now + TicksPerSec <= MaxSeconds * TicksPerSec
    /\ now' = now + TicksPerSec
    /\ UNCHANGED <<aux, vad, is_listening, vad_config, listen_task, event_tx,
                   sessions, loop, rec, stop, events, pushed, last_call>>

SecondsNext ==
    \/ AdvanceSecond
    \/ \E audio_chunk \in DetectorFrames : CallProcessAudio(audio_chunk)
    \/ CallTakeAudioBuffer

\* The clock runs, and frames keep arriving: the poll loop calls process_audio
\* on every chunk it drains.
SecondsFairness ==
    /\ WF_vars(AdvanceSecond)
    /\ WF_vars(\E audio_chunk \in DetectorFrames : CallProcessAudio(audio_chunk))

DetectorSecondsSpec == SecondsInit /\ [][SecondsNext]_vars /\ SecondsFairness

\* ------------------------- the resampler on its own (continuous_listener.rs)

\* One call of resample_to_16khz; r is its outcome.  The bytes of the sinc
\* resampler are not represented.
CallResample(samples, from_rate, r) ==
    /\ r \in resample_to_16khz(samples, from_rate)
    /\ ret' = IF from_rate = TARGET_RATE
              THEN [op |-> "resample_to_16khz", samples |-> samples,
                    from_rate |-> from_rate, result |-> r,
                    val |-> pcm_data(samples)]
              ELSE [op |-> "resample_to_16khz", samples |-> samples,
                    from_rate |-> from_rate, result |-> r]
    /\ UNCHANGED <<listener_vars, now, vad, vad_config, mutex, thread, drained,
                   rx, callback>>

ResamplerNext ==
    \E samples \in ResamplerInputs, from_rate \in ResamplerRates,
       r \in {"Ok", "Err"} : CallResample(samples, from_rate, r)

ResamplerSpec == DefaultInit /\ [][ResamplerNext]_vars

\* --------------------------------------- the recorder on its own (recorder.rs)
\* Samples are numbered in the order the device delivers them.  The stream
\* callback runs on the thread "callback", take_audio_data on the thread
\* "loop"; each holds the mutex of audio_buffer from its lock() to the end of
\* its statement or closure.

recorder_unchanged ==
    <<is_listening, listen_task, event_tx, sessions, loop, stop, events,
      last_call, now, vad, vad_config, ret, rx, callback>>

\* AudioRecorder::start_recording: clear the buffer, build and play the stream.
StartRecording(s) ==
    /\ ~rec[s].stream
    /\ pushed = 0
    /\ mutex.audio_buffer = "free"
    /\ rec' = [rec EXCEPT ![s] = [stream |-> TRUE, audio_buffer |-> <<>>]]
    /\ UNCHANGED <<recorder_unchanged, pushed, mutex, thread, drained>>

\* The stream callback is entered with a frame of n samples and locks the buffer.
CallbackLock(s, n) ==
    /\ rec[s].stream
    /\ thread["callback"].pc = "idle"
    /\ pushed + n <= MaxPushed
    /\ mutex.audio_buffer = "free"
    /\ mutex' = [mutex EXCEPT !.audio_buffer = "callback"]
    /\ thread' = [thread EXCEPT !["callback"] =
                     [pc |-> "push", data |-> [i \in 1..n |-> pushed + i]]]
    /\ pushed' = pushed + n
    /\ UNCHANGED <<recorder_unchanged, rec, drained>>

\* buf.push(sample), or one element of extend_from_slice
CallbackPush(s) ==
    /\ thread["callback"].pc = "push"
    /\ thread["callback"].data # <<>>
    /\ rec' = [rec EXCEPT ![s].audio_buffer =
                              Append(@, Head(thread["callback"].data))]
    /\ thread' = [thread EXCEPT !["callback"].data = Tail(@)]
    /\ UNCHANGED <<recorder_unchanged, pushed, mutex, drained>>

\* The closure returns and its guard is dropped.
CallbackUnlock ==
    /\ thread["callback"].pc = "push"
    /\ thread["callback"].data = <<>>
    /\ mutex' = [mutex EXCEPT !.audio_buffer = "free"]
    /\ thread' = [thread EXCEPT !["callback"].pc = "idle"]
    /\ UNCHANGED <<recorder_unchanged, rec, pushed, drained>>

\* AudioRecorder::take_audio_data: self.audio_buffer.lock()
TakeLock ==
    /\ thread["loop"].pc = "idle"
    /\ Len(drained) < MaxDrains
    /\ mutex.audio_buffer = "free"
    /\ mutex' = [mutex EXCEPT !.audio_buffer = "loop"]
    /\ thread' = [thread EXCEPT !["loop"].pc = "take"]
    /\ UNCHANGED <<recorder_unchanged, rec, pushed, drained>>

\* take_audio_data that returns a copy of the buffer and does not empty it.
TakeSwap_Clones(s) ==
    /\ thread["loop"].pc = "take"
    /\ thread' = [thread EXCEPT !["loop"] =
                     [pc |-> "unlock", data |-> rec[s].audio_buffer]]
    /\ UNCHANGED <<recorder_unchanged, rec, pushed, mutex, drained>>

\* std::mem::take(&mut *buffer)
TakeSwap(s) ==
    /\ thread["loop"].pc = "take"
    /\ thread' = [thread EXCEPT !["loop"] =
                     [pc |-> "unlock", data |-> rec[s].audio_buffer]]
    /\ rec' = [rec EXCEPT ![s].audio_buffer = <<>>]
    /\ UNCHANGED <<recorder_unchanged, pushed, mutex, drained>>

\* take_audio_data returns: the guard is dropped, the caller has the chunk.
TakeReturn ==
    /\ thread["loop"].pc = "unlock"
    /\ mutex' = [mutex EXCEPT !.audio_buffer = "free"]
    /\ drained' = Append(drained, thread["loop"].data)
    /\ thread' = [thread EXCEPT !["loop"] = [pc |-> "idle", data |-> <<>>]]
    /\ UNCHANGED <<recorder_unchanged, rec, pushed>>

\* AudioRecorder::stop_recording: the stream is dropped, no callback runs
\* after that.
StopRecording(s) ==
    /\ rec[s].stream
    /\ thread["callback"].pc = "idle"
    /\ rec' = [rec EXCEPT ![s].stream = FALSE]
    /\ UNCHANGED <<recorder_unchanged, pushed, mutex, thread, drained>>

RecorderNext ==
    \/ \E s \in Sessions : StartRecording(s)
    \/ \E s \in Sessions, n \in 1..MaxFrameLen : CallbackLock(s, n)
    \/ \E s \in Sessions : CallbackPush(s)
    \/ CallbackUnlock
    \/ TakeLock
    \/ \E s \in Sessions : TakeSwap(s)
    \/ TakeReturn
    \/ \E s \in Sessions : StopRecording(s)

RecorderSpec == DefaultInit /\ [][RecorderNext]_vars

\* ------------------ the consumer of the event channel (start_listening)
\* The unbounded channel of session s holds the events sent on it, in the
\* order of the sends; its receiver has taken the first rx[s] of them.

ChannelEvents(s) == SelectSeq(events, LAMBDA e : e.chan = s)

\* The consumer task that hands the callback the newest event of the channel.
Deliver_Newest(s) ==
    /\ rx[s] < Len(ChannelEvents(s))
    /\ callback' = Append(callback, ChannelEvents(s)[Len(ChannelEvents(s))])
    /\ rx' = [rx EXCEPT ![s] = @ + 1]
    /\ UNCHANGED <<now, vad, is_listening, vad_config, listen_task, event_tx,
                   sessions, loop, rec, stop, events, pushed, last_call,
                   ret, mutex, thread, drained>>

\* The consumer task that ends when the listener clears its event sink.
Deliver_UntilSinkCleared(s) ==
    /\ event_tx = s
    /\ rx[s] < Len(ChannelEvents(s))
    /\ callback' = Append(callback, ChannelEvents(s)[rx[s] + 1])
    /\ rx' = [rx EXCEPT ![s] = @ + 1]
    /\ UNCHANGED <<now, vad, is_listening, vad_config, listen_task, event_tx,
                   sessions, loop, rec, stop, events, pushed, last_call,
                   ret, mutex, thread, drained>>

\* start_listening, lines 119-123: rx.recv() returns the oldest event not yet
\* received and the task calls event_callback with it.
Deliver(s) ==
    /\ rx[s] < Len(ChannelEvents(s))
    /\ callback' = Append(callback, ChannelEvents(s)[rx[s] + 1])
    /\ rx' = [rx EXCEPT ![s] = @ + 1]
    /\ UNCHANGED <<now, vad, is_listening, vad_config, listen_task, event_tx,
                   sessions, loop, rec, stop, events, pushed, last_call,
                   ret, mutex, thread, drained>>

\* The listener's steps up to the time MaxChannelTime, and the consumer's.
ChannelNext ==
    \/ Next /\ now' <= MaxChannelTime
    \/ \E s \in Sessions : Deliver(s)

ChannelSpec == DefaultInit /\ [][ChannelNext]_vars

\* The consumer task is spawned on the runtime and nothing aborts it: while
\* the channel holds an event, recv() returns and the callback is called.
ChannelFairness == WF_vars(\E s \in Sessions : Deliver(s))

ChannelLiveSpec == DefaultInit /\ [][ChannelNext]_vars /\ ChannelFairness

\* ------------------------- the locks (continuous_listener.rs, recorder.rs)
\* Each thread's path through the code, cut at every lock() and at the end of
\* every guard's scope; the data under the locks is left out.  The thread
\* "caller" makes the calls of the listener's API one after the other (the
\* commands reach the listener through one mutex, and start_listening and
\* stop_listening take &mut self); "loop" runs listen_loop_blocking and
\* "callback" the stream callback.  A listener is started again only after
\* its polling thread has ended.

lock_unchanged ==
    <<sessions, loop, stop, events, pushed, last_call, now, vad, vad_config,
      ret, drained, rx, callback>>

At(t, pc) == thread[t].pc = pc
Goto(t, pc) == thread' = [thread EXCEPT ![t].pc = pc]

\* m.lock() by thread t: blocks until the mutex is free
Lock(m, t) ==
    /\ mutex[m] = "free"
    /\ mutex' = [mutex EXCEPT ![m] = t]

\* The guard of m goes out of scope.
Unlock(m, t) ==
    /\ mutex[m] = t
    /\ mutex' = [mutex EXCEPT ![m] = "free"]

\* start_listening, lines 110-124: not running, so the channel is created
StartCall ==
    /\ At("caller", "idle") /\ At("loop", "idle")
    /\ listen_task = 0
    /\ event_tx' = 1
    /\ Goto("caller", "start_lock")
    /\ UNCHANGED <<lock_unchanged, mutex, is_listening, listen_task, rec>>

\* start_listening, line 128
StartLock ==
    /\ At("caller", "start_lock")
    /\ Lock("state", "caller")
    /\ Goto("caller", "start_locked")
    /\ UNCHANGED <<lock_unchanged, is_listening, listen_task, event_tx, rec>>

\* start_listening, lines 129-131
StartUnlock ==
    /\ At("caller", "start_locked")
    /\ is_listening' = TRUE
    /\ Unlock("state", "caller")
    /\ Goto("caller", "spawn")
    /\ UNCHANGED <<lock_unchanged, listen_task, event_tx, rec>>

\* start_listening, lines 133-146
StartSpawn ==
    /\ At("caller", "spawn")
    /\ listen_task' = 1
    /\ thread' = [thread EXCEPT !["caller"].pc = "idle", !["loop"].pc = "open"]
    /\ UNCHANGED <<lock_unchanged, mutex, is_listening, event_tx, rec>>

\* stop_listening, lines 152-158: there is an event sink
StopCall ==
    /\ At("caller", "idle")
    /\ event_tx # 0
    /\ Goto("caller", "flush_lock")
    /\ UNCHANGED <<lock_unchanged, mutex, is_listening, listen_task, event_tx, rec>>

\* stop_listening, line 160
FlushLock ==
    /\ At("caller", "flush_lock")
    /\ Lock("state", "caller")
    /\ Goto("caller", "flush_locked")
    /\ UNCHANGED <<lock_unchanged, is_listening, listen_task, event_tx, rec>>

\* stop_listening, lines 161-236: take and resample under the lock, unlock,
\* then send and sleep
FlushUnlock ==
    /\ At("caller", "flush_locked")
    /\ Unlock("state", "caller")
    /\ Goto("caller", "flag_lock")
    /\ UNCHANGED <<lock_unchanged, is_listening, listen_task, event_tx, rec>>

\* stop_listening, line 240
FlagLock ==
    /\ At("caller", "flag_lock")
    /\ Lock("state", "caller")
    /\ Goto("caller", "flag_locked")
    /\ UNCHANGED <<lock_unchanged, is_listening, listen_task, event_tx, rec>>

\* stop_listening, lines 241-242
FlagUnlock ==
    /\ At("caller", "flag_locked")
    /\ is_listening' = FALSE
    /\ Unlock("state", "caller")
    /\ Goto("caller", "abort")
    /\ UNCHANGED <<lock_unchanged, listen_task, event_tx, rec>>

\* stop_listening, lines 244-252: a polling closure that has not begun to run
\* may be cancelled with its task, one that runs is left running
AbortTask(cancelled) ==
    /\ At("caller", "abort")
    /\ cancelled => At("loop", "open")
    /\ listen_task' = 0
    /\ event_tx' = 0
    /\ thread' = [thread EXCEPT
                     !["caller"].pc = "idle",
                     !["loop"].pc = IF cancelled THEN "idle" ELSE @]
    /\ UNCHANGED <<lock_unchanged, mutex, is_listening, rec>>

\* get_state is called
GetStateCall ==
    /\ At("caller", "idle")
    /\ Goto("caller", "get_lock")
    /\ UNCHANGED <<lock_unchanged, mutex, is_listening, listen_task, event_tx, rec>>

\* get_state, line 257
GetStateLock ==
    /\ At("caller", "get_lock")
    /\ Lock("state", "caller")
    /\ Goto("caller", "get_locked")
    /\ UNCHANGED <<lock_unchanged, is_listening, listen_task, event_tx, rec>>

\* get_state, lines 258-265: the snapshot is built and the guard dropped
GetStateReturn ==
    /\ At("caller", "get_locked")
    /\ Unlock("state", "caller")
    /\ Goto("caller", "idle")
    /\ UNCHANGED <<lock_unchanged, is_listening, listen_task, event_tx, rec>>

\* listen_loop_blocking, line 290: AudioRecorder::new fails and the task ends
PollNoDevice ==
    /\ At("loop", "open")
    /\ Goto("loop", "idle")
    /\ UNCHANGED <<lock_unchanged, mutex, is_listening, listen_task, event_tx, rec>>

\* start_recording, line 86: buffer.lock()
PollClearLock ==
    /\ At("loop", "open")
    /\ Lock("audio_buffer", "loop")
    /\ Goto("loop", "clear_locked")
    /\ UNCHANGED <<lock_unchanged, is_listening, listen_task, event_tx, rec>>

\* start_recording, lines 86-154: clear and unlock; then the stream is built
\* and played, or the task ends with the error
PollStartStream(s, ok) ==
    /\ At("loop", "clear_locked")
    /\ Unlock("audio_buffer", "loop")
    /\ rec' = [rec EXCEPT ![s].stream = ok]
    /\ Goto("loop", IF ok THEN "check_lock" ELSE "idle")
    /\ UNCHANGED <<lock_unchanged, is_listening, listen_task, event_tx>>

\* listen_loop_blocking, line 309
PollCheckLock ==
    /\ At("loop", "check_lock")
    /\ Lock("state", "loop")
    /\ Goto("loop", "check_locked")
    /\ UNCHANGED <<lock_unchanged, is_listening, listen_task, event_tx, rec>>

\* listen_loop_blocking, lines 310-316: leave the loop, or unlock and sleep
PollCheckUnlock ==
    /\ At("loop", "check_locked")
    /\ Unlock("state", "loop")
    /\ Goto("loop", IF is_listening THEN "drain_lock" ELSE "exit")
    /\ UNCHANGED <<lock_unchanged, is_listening, listen_task, event_tx, rec>>

\* take_audio_data, line 168
PollDrainLock ==
    /\ At("loop", "drain_lock")
    /\ Lock("audio_buffer", "loop")
    /\ Goto("loop", "drain_locked")
    /\ UNCHANGED <<lock_unchanged, is_listening, listen_task, event_tx, rec>>

\* take_audio_data that returns the guard with the data: the sample buffer
\* stays locked while the chunk is processed.
PollDrainUnlock_KeepsGuard(empty) ==
    /\ At("loop", "drain_locked")
    /\ Goto("loop", IF empty THEN "check_lock" ELSE "vad_lock")
    /\ UNCHANGED <<lock_unchanged, mutex, is_listening, listen_task, event_tx, rec>>

\* take_audio_data, lines 169-170, and listen_loop_blocking, lines 322-324
PollDrainUnlock(empty) ==
    /\ At("loop", "drain_locked")
    /\ Unlock("audio_buffer", "loop")
    /\ Goto("loop", IF empty THEN "check_lock" ELSE "vad_lock")
    /\ UNCHANGED <<lock_unchanged, is_listening, listen_task, event_tx, rec>>

\* listen_loop_blocking, line 328
PollVadLock ==
    /\ At("loop", "vad_lock")
    /\ Lock("state", "loop")
    /\ Goto("loop", "vad_locked")
    /\ UNCHANGED <<lock_unchanged, is_listening, listen_task, event_tx, rec>>

\* The polling loop with the guard of the state mutex kept alive across the
\* iteration.
PollVadUnlock_KeepsGuard ==
    /\ At("loop", "vad_locked")
    /\ Goto("loop", "check_lock")
    /\ UNCHANGED <<lock_unchanged, mutex, is_listening, listen_task, event_tx, rec>>

\* listen_loop_blocking, lines 329-425: detector and events under the lock,
\* unlock, then resample and send
PollVadUnlock ==
    /\ At("loop", "vad_locked")
    /\ Unlock("state", "loop")
    /\ Goto("loop", "check_lock")
    /\ UNCHANGED <<lock_unchanged, is_listening, listen_task, event_tx, rec>>

\* listen_loop_blocking, lines 428-431: the stream is dropped between two
\* callbacks
PollExit(s) ==
    /\ At("loop", "exit")
    /\ At("callback", "idle")
    /\ rec' = [rec EXCEPT ![s].stream = FALSE]
    /\ Goto("loop", "idle")
    /\ UNCHANGED <<lock_unchanged, mutex, is_listening, listen_task, event_tx>>

\* The stream callback: buffer.lock()
StreamCallbackLock(s) ==
    /\ rec[s].stream
    /\ At("callback", "idle")
    /\ Lock("audio_buffer", "callback")
    /\ Goto("callback", "locked")
    /\ UNCHANGED <<lock_unchanged, is_listening, listen_task, event_tx, rec>>

\* The stream callback has appended its frame and returns.
StreamCallbackUnlock ==
    /\ At("callback", "locked")
    /\ Unlock("audio_buffer", "callback")
    /\ Goto("callback", "idle")
    /\ UNCHANGED <<lock_unchanged, is_listening, listen_task, event_tx, rec>>

LockNext ==
    \/ StartCall \/ StartLock \/ StartUnlock \/ StartSpawn
    \/ StopCall \/ FlushLock \/ FlushUnlock \/ FlagLock \/ FlagUnlock
    \/ \E cancelled \in BOOLEAN : AbortTask(cancelled)
    \/ GetStateCall \/ GetStateLock \/ GetStateReturn
    \/ PollNoDevice \/ PollClearLock
    \/ \E s \in Sessions, ok \in BOOLEAN : PollStartStream(s, ok)
    \/ PollCheckLock \/ PollCheckUnlock
    \/ PollDrainLock
    \/ \E empty \in BOOLEAN : PollDrainUnlock(empty)
    \/ PollVadLock \/ PollVadUnlock
    \/ \E s \in Sessions : PollExit(s)
    \/ \E s \in Sessions : StreamCallbackLock(s)
    \/ StreamCallbackUnlock

\* A thread that holds a lock reaches the end of the guard's scope: the code
\* under the locks has no loop, lock or blocking call, and a send on the
\* unbounded channel does not wait.  A thread blocked in get_state's lock()
\* gets the mutex: the polling thread sleeps 100 ms between two sections, and
\* the callback never takes this mutex.
LockFairness ==
    /\ WF_vars(StartUnlock) /\ WF_vars(FlushUnlock) /\ WF_vars(FlagUnlock)
    /\ WF_vars(GetStateReturn)
    /\ WF_vars(\E s \in Sessions, ok \in BOOLEAN : PollStartStream(s, ok))
    /\ WF_vars(PollCheckUnlock)
    /\ WF_vars(\E empty \in BOOLEAN : PollDrainUnlock(empty))
    /\ WF_vars(PollVadUnlock)
    /\ WF_vars(StreamCallbackUnlock)
    /\ SF_vars(GetStateLock)

LockSpec == DefaultInit /\ [][LockNext]_vars /\ LockFairness

\* ------------------------------------------------------------------ claims

IsRequest(e) == e.type = "AliyunRecognizeRequest"
Requests == {i \in DOMAIN events : IsRequest(events[i])}
ErrorSent ==
    /\ Len(events') = Len(events) + 1
    /\ events'[Len(events')].type = "Error"
ListenerUnchanged ==
    UNCHANGED <<now, vad, is_listening, vad_config, listen_task, event_tx,
                sessions, loop, rec, stop, events, pushed>>

\* C1: for one utterance (one onset into Speaking) the poll loop and
\* stop_listening together send at most one AliyunRecognizeRequest: no two
\* requests on the channel belong to the same onset.
C1_OneRequestPerUtterance ==
    \A i, j \in Requests : events[i].onset = events[j].onset => i = j

\* C2: once stop_listening has run its flush and send on a listener whose
\* buffer was non-empty with a duration at or above the configured minimum,
\* exactly one request carrying that buffer was sent by stop_listening, before
\* the teardown; also when the resampling failed.
C2_StopFlushesLiveSpeech ==
    (/\ stop.pc \in {"clearflag", "abort"}
     /\ stop.buffer_size > 0
     /\ stop.recording_duration >= vad_config.min_speech_duration_secs)
    => Cardinality({i \in Requests :
                       /\ events[i].by = "stop"
                       /\ events[i].chan = event_tx
                       /\ events[i].pcm_blocks = stop.buffer_size
                       /\ events[i].duration_secs = stop.recording_duration}) = 1

\* C3: in stop_listening the flush (take, resample, send) is over before the
\* running flag is cleared, the flag is cleared before the task is aborted, and
\* task handle and event sink are still there until then.
C3_FlushBeforeTeardown ==
    /\ stop.pc = "send" => is_listening /\ listen_task # 0 /\ event_tx # 0
    /\ stop.pc = "clearflag" => listen_task # 0 /\ event_tx # 0
    /\ stop.pc = "abort" => ~is_listening /\ listen_task # 0 /\ event_tx # 0

\* C3 witness: stop_listening has sent its request and has torn nothing down.
C3_Witness ==
    /\ stop.pc = "clearflag"
    /\ is_listening /\ listen_task # 0 /\ event_tx # 0
    /\ \E i \in Requests : events[i].by = "stop"

\* C4: on the tick that ends an utterance (Speaking to Processing) the poll
\* loop keeps the audio for a request exactly when the time from onset to
\* finalize is at least the configured min_speech_duration_secs.
C4_ConfiguredMinDuration ==
    [][\A s \in Sessions :
         LET p == process_audio(vad, vad_config, loop[s].audio_chunk, now)
         IN  (/\ LoopVad(s)
              /\ vad.state = "Speaking"
              /\ p.vad.state = "Processing")
             => (loop'[s].taken.some <=>
                   recording_duration(p.vad, now)
                       >= vad_config.min_speech_duration_secs)]_vars

\* C5: every AliyunRecognizeRequest carries sample_rate = 16000, the rate of
\* its PCM bytes.
C5_RequestRateIsTarget ==
    \A i \in Requests : events[i].sample_rate = TARGET_RATE

\* C6: a listener whose capture device could not be opened or started is not
\* running: no task handle, no event sink, is_listening false.
C6_DeviceErrorLeavesNotRunning ==
    \A s \in Sessions :
        loop[s].pc = "failed"
        => /\ listen_task # s
           /\ event_tx # s
           /\ s = sessions => ~is_listening

\* C7: every failed resampling of a taken buffer, in the poll loop or in
\* stop_listening, puts an Error event on the channel.
C7_ResampleFailureSendsError ==
    [][/\ \A s \in Sessions : LoopResample(s, "Err") => ErrorSent
       /\ (/\ StopSend
           /\ stop.buffer_size > 0
           /\ stop.recording_duration >= FlushMinDuration
           /\ ~stop.should_trigger_recognition.some) => ErrorSent]_vars

\* C8: a failed resampling in the poll loop drops the utterance and nothing
\* else: no event, the running flag, the detector and the stream untouched,
\* and the loop back at the top of its cycle.
C8_ResampleFailureNotFatal ==
    [][\A s \in Sessions :
         LoopResample(s, "Err")
         => /\ loop'[s].pc = "check"
            /\ rec'[s].stream = rec[s].stream
            /\ UNCHANGED <<is_listening, vad, events, listen_task, event_tx>>]_vars

\* C8 witness: an utterance long enough for a request ended without one (its
\* resampling failed) and a later utterance of the same session was sent.
C8_Witness ==
    \E i, j \in DOMAIN events :
        /\ i + 1 < j
        /\ events[i].type = "SpeechEnded"
        /\ events[i].duration_secs >= FlushMinDuration
        /\ events[i + 1].type = "SpeechStarted"
        /\ IsRequest(events[j])
        /\ events[j].by = "loop"
        /\ events[j].chan = events[i].chan
        /\ is_listening

\* C9: start_listening on a running listener changes nothing: no new task or
\* recorder, detector and buffer as they were, the same event sink.
C9_StartWhileRunningIsNoop ==
    [][(start_listening /\ listen_task # 0) => ListenerUnchanged]_vars

\* C9 witness: start_listening returned early while an utterance was being
\* recorded, and the utterance is still there.
C9_Witness ==
    /\ last_call = "start_noop"
    /\ listen_task # 0
    /\ vad.state = "Speaking"
    /\ vad.audio_buffer # <<>>

\* C10: stop_listening on a listener that is not running changes nothing and
\* sends nothing, and a listener that was stopped is not running.
C10_StopWhenNotRunningIsNoop ==
    [][/\ (stop.pc = "idle" /\ event_tx = 0
             /\ (stop_not_running \/ \E r \in {"Ok", "Err"} : StopFlush(r)))
          => ListenerUnchanged
       /\ (stop.pc = "abort" /\ stop'.pc = "idle")
          => event_tx' = 0 /\ listen_task' = 0 /\ ~is_listening']_vars

\* C10 witness: a second stop_listening returned early on a stopped listener
\* whose detector still holds audio.
C10_Witness ==
    /\ last_call = "stop_noop"
    /\ sessions > 0
    /\ event_tx = 0
    /\ vad.audio_buffer # <<>>

\* The positions at which a thread is blocked in lock() of each mutex.
WaitsFor ==
    [state |-> {"start_lock", "flush_lock", "flag_lock", "get_lock",
                "check_lock", "vad_lock"},
     audio_buffer |-> {"open", "drain_lock"}]

\* No thread holds one of the two mutexes while it holds or waits for the
\* other.
NoHoldAndWait ==
    \A t \in DOMAIN thread :
        /\ mutex["state"] = t
           => mutex["audio_buffer"] # t
              /\ thread[t].pc \notin WaitsFor["audio_buffer"]
        /\ mutex["audio_buffer"] = t
           => thread[t].pc \notin WaitsFor["state"]

\* C11: get_state returns in every phase of the listener and under every
\* interleaving with the polling thread and the stream callback: no thread
\* holds one mutex while it holds or waits for the other, each mutex that is
\* held is released, and a get_state that was called returns.
C11_GetStateReturns ==
    /\ []NoHoldAndWait
    /\ \A m \in {"state", "audio_buffer"} : (mutex[m] # "free") ~> (mutex[m] = "free")
    /\ At("caller", "get_lock") ~> At("caller", "get_locked")
    /\ At("caller", "get_locked") ~> At("caller", "idle")

\* C11 witness: get_state holds the state mutex in the middle of a session,
\* while the polling thread is blocked on that mutex with a chunk to process
\* and the callback holds the mutex of the sample buffer.
C11_Witness ==
    /\ At("caller", "get_locked")
    /\ mutex["state"] = "caller"
    /\ is_listening /\ listen_task # 0
    /\ At("loop", "vad_lock")
    /\ mutex["audio_buffer"] = "callback"

TimersUnset(v) == v.speech_start_time = NoTime /\ v.last_voice_time = NoTime

\* The RMS of frame c exceeds the configured threshold (the RMS of no samples
\* is 0).
Exceeds(c) ==
    /\ c # <<>>
    /\ SumSquares(c) > vad_config.volume_threshold
                         * vad_config.volume_threshold * Len(c)

\* C12: while Idle, process_audio on a frame whose RMS is at or below the
\* threshold returns false and leaves the detector Idle with an empty buffer
\* and both timers unset.
C12_IdleQuietFrameIsNoop ==
    [][\A c \in DetectorFrames :
         (/\ vad.state = "Idle"
          /\ ~Exceeds(c)
          /\ CallProcessAudio(c))
         => /\ ret'.val = FALSE
            /\ vad'.state = "Idle"
            /\ vad'.audio_buffer = <<>>
            /\ TimersUnset(vad')]_vars

\* C12 witness: a frame at or below the threshold was processed while Idle, at
\* a time after construction.
C12_Witness ==
    /\ ret.op = "process_audio" /\ ret.pre = "Idle" /\ ~ret.loud
    /\ vad.state = "Idle"
    /\ now > 0

\* C13: while Idle, process_audio on a frame whose RMS exceeds the threshold
\* returns false, moves to Speaking, leaves the buffer equal to exactly that
\* frame and sets onset and last-loud time to now.
C13_OnsetKeepsTriggeringFrame ==
    [][\A c \in DetectorFrames :
         (/\ vad.state = "Idle"
          /\ Exceeds(c)
          /\ CallProcessAudio(c))
         => /\ ret'.val = FALSE
            /\ vad'.state = "Speaking"
            /\ vad'.audio_buffer = c
            /\ vad'.speech_start_time = now
            /\ vad'.last_voice_time = now]_vars

\* C13 witness: an utterance began, after construction, with a frame of two
\* blocks of which one alone is below the threshold.
C13_Witness ==
    /\ ret.op = "process_audio" /\ ret.pre = "Idle" /\ ret.loud
    /\ vad.state = "Speaking"
    /\ vad.speech_start_time > 0
    /\ Len(vad.audio_buffer) = 2
    /\ vad.audio_buffer[1] < vad_config.volume_threshold

\* The call of process_audio on a quiet frame, while Speaking, at a time when
\* the last loud frame is more than silence_duration_secs ago.
SilenceExpired(c) ==
    /\ vad.state = "Speaking"
    /\ now - vad.last_voice_time > vad_config.silence_duration_secs
    /\ ~Exceeds(c)
    /\ CallProcessAudio(c)

\* C14 as stated: that call returns true and the state becomes Processing, for
\* every VadConfig.
C14_SilenceFinalizesTrue ==
    [][\A c \in DetectorFrames :
         SilenceExpired(c) => ret'.val = TRUE /\ vad'.state = "Processing"]_vars

\* C14: that call moves the state to Processing for every VadConfig, and it
\* returns true exactly when the time since onset is at least
\* min_speech_duration_secs.
C14_SilenceFinalizes ==
    [][\A c \in DetectorFrames :
         SilenceExpired(c)
         => /\ vad'.state = "Processing"
            /\ ret'.val = (now - vad.speech_start_time
                             >= vad_config.min_speech_duration_secs)]_vars

\* C14 witness: silence ended an utterance shorter than the configured
\* minimum, and process_audio returned false.
C14_Witness ==
    /\ ret.op = "process_audio" /\ ret.pre = "Speaking" /\ ~ret.loud
    /\ vad.state = "Processing"
    /\ now - vad.last_voice_time > vad_config.silence_duration_secs
    /\ now - vad.speech_start_time < vad_config.min_speech_duration_secs
    /\ ret.val = FALSE

\* C15: while Speaking, a call of process_audio made more than
\* max_speech_duration_secs after onset moves the state to Processing, also
\* when the frame is loud.
C15_MaxDurationFinalizes ==
    [][\A c \in DetectorFrames :
         (/\ vad.state = "Speaking"
          /\ now - vad.speech_start_time > vad_config.max_speech_duration_secs
          /\ CallProcessAudio(c))
         => vad'.state = "Processing"]_vars

\* C15 witness: an utterance was ended by a loud frame, with no silence.
C15_Witness ==
    /\ ret.op = "process_audio" /\ ret.pre = "Speaking" /\ ret.loud
    /\ vad.state = "Processing"
    /\ vad.last_voice_time = now
    /\ now - vad.speech_start_time > vad_config.max_speech_duration_secs

\* C16: take_audio_buffer returns exactly the accumulated samples and leaves
\* the buffer empty, state and timers as they were; a second take with no
\* process_audio in between returns nothing.
C16_TakeTransfersBuffer ==
    [][CallTakeAudioBuffer
       => /\ ret'.val = vad.audio_buffer
          /\ vad' = [vad EXCEPT !.audio_buffer = <<>>]
          /\ ret.op = "take_audio_buffer" => ret'.val = <<>>]_vars

\* C16 witness: a take returned the two blocks of a running utterance.
C16_Witness ==
    /\ ret.op = "take_audio_buffer" /\ ret.pre = "Speaking"
    /\ Len(ret.val) = 2
    /\ vad.audio_buffer = <<>>
    /\ vad.state = "Speaking"

\* C17: reset, in any state, leaves the detector Idle with an empty buffer
\* and both timers unset, so that recording_duration and buffer_size are 0.
C17_ResetClearsEverything ==
    [][CallReset
       => /\ vad'.state = "Idle"
          /\ vad'.audio_buffer = <<>>
          /\ TimersUnset(vad')
          /\ recording_duration(vad', now') = 0
          /\ buffer_size(vad') = 0]_vars

\* C17 witness: reset was called on a finalized utterance, some time after its
\* onset, and the detector is as new.
C17_Witness ==
    /\ ret.op = "reset" /\ ret.pre = "Processing"
    /\ vad = NewVad
    /\ now > 1

RECURSIVE Flatten(_)
Flatten(chunks) ==
    IF chunks = <<>> THEN <<>> ELSE Head(chunks) \o Flatten(Tail(chunks))

\* C18: after start_recording, under every interleaving of callbacks and
\* drains, the chunks returned so far, the chunk being returned, the shared
\* buffer and the rest of the frame being pushed are, in this order, the
\* samples in the order the device delivered them, each once; and a drain
\* takes the whole shared buffer and leaves it empty.
C18_EachSampleDrainedOnce ==
    /\ [](\A s \in Sessions :
            rec[s].stream \/ drained # <<>>
            => Flatten(drained) \o thread["loop"].data \o rec[s].audio_buffer
                   \o thread["callback"].data
                 = [i \in 1..pushed |-> i])
    /\ [][\A s \in Sessions :
            TakeSwap(s) => /\ thread'["loop"].data = rec[s].audio_buffer
                           /\ rec'[s].audio_buffer = <<>>]_vars

\* C18 witness: two drains returned samples, and a callback is in the middle
\* of pushing its frame: one sample is in the shared buffer, one still to come.
C18_Witness ==
    /\ Len(drained) >= 2
    /\ drained[1] # <<>>
    /\ drained[2] # <<>>
    /\ thread["callback"].pc = "push"
    /\ thread["callback"].data # <<>>
    /\ \E s \in Sessions : rec[s].audio_buffer # <<>>

\* The signed value of the byte pair lo, hi read as a little-endian i16.
FromLeBytes(lo, hi) ==
    LET u == lo + 256 * hi IN IF u >= 32768 THEN u - 65536 ELSE u

Abs(x) == IF x < 0 THEN 0 - x ELSE x

\* v is s clamped to [-1, 1] and scaled by 32767, without its fraction.
IsClampedScaled(v, s) ==
    LET c == IF s < 0 - SampleUnit THEN 0 - SampleUnit
             ELSE IF s > SampleUnit THEN SampleUnit ELSE s
    IN  /\ Abs(v) * SampleUnit <= Abs(c) * 32767
        /\ Abs(c) * 32767 < (Abs(v) + 1) * SampleUnit
        /\ (v < 0 => c < 0) /\ (v > 0 => c > 0)

\* C19: resample_to_16khz with from_rate = 16000 never fails and returns two
\* bytes per input sample, in input order: the little-endian 16-bit value of
\* the sample clamped to [-1, 1] and scaled by 32767.
C19_EqualRateIsQuantization ==
    (ret.op = "resample_to_16khz" /\ ret.from_rate = TARGET_RATE)
    => /\ ret.result = "Ok"
       /\ Len(ret.val) = 2 * Len(ret.samples)
       /\ \A i \in 1..Len(ret.samples) :
             /\ ret.val[2 * i - 1] \in 0..255
             /\ ret.val[2 * i] \in 0..255
             /\ IsClampedScaled(FromLeBytes(ret.val[2 * i - 1], ret.val[2 * i]),
                                ret.samples[i])

\* C19 witness: two samples were converted at equal rates, one negative and
\* inside the range, one beyond full scale.
C19_Witness ==
    /\ ret.op = "resample_to_16khz" /\ ret.from_rate = TARGET_RATE
    /\ Len(ret.samples) = 2
    /\ ret.samples[1] < 0 /\ ret.samples[1] > 0 - SampleUnit
    /\ ret.samples[2] > SampleUnit
    /\ Len(ret.val) = 4

\* C20: within one session the callback has received a prefix of the events
\* sent on the channel, in the order of the sends, none twice; and a thread
\* that is at a send (the polling thread under the state mutex and after its
\* resampling, stop_listening after its flush) can take its step whatever the
\* consumer has received.
C20_EventsDeliveredInSendOrder ==
    /\ \A s \in Sessions :
          SelectSeq(callback, LAMBDA e : e.chan = s)
            = SubSeq(ChannelEvents(s), 1, rx[s])
    /\ stop.pc = "send" => ENABLED StopSend
    /\ \A s \in Sessions :
          /\ loop[s].pc = "vad" => ENABLED LoopVad(s)
          /\ loop[s].pc = "resample"
             => ENABLED (\E r \in {"Ok", "Err"} : LoopResample(s, r))

\* C20 witness: the callback has received events of the polling thread and
\* then the request of stop_listening, while the polling thread has sent a
\* further event that is still in the channel.
C20_Witness ==
    \E s \in Sessions :
        /\ rx[s] >= 2
        /\ rx[s] < Len(ChannelEvents(s))
        /\ callback[1].type = "SpeechStarted"
        /\ IsRequest(callback[rx[s]]) /\ callback[rx[s]].by = "stop"

\* C21: when silence ends an utterance, the duration the poll loop reports in
\* SpeechEnded, and the duration and samples it keeps for the request, cover
\* the span from onset to the last loud frame (one poll interval of tolerance
\* for that frame itself), not the span up to the tick that finalizes.
C21_EndedReportsLoudSpan ==
    [][\A s \in Sessions :
         LET p == process_audio(vad, vad_config, loop[s].audio_chunk, now)
             loud_span == p.vad.last_voice_time - p.vad.speech_start_time
                              + process_interval
         IN  (/\ LoopVad(s)
              /\ vad.state = "Speaking"
              /\ p.vad.state = "Processing"
              /\ ~speech_too_long(p.vad, vad_config, now))
             => /\ events'[Len(events')].type = "SpeechEnded"
                /\ events'[Len(events')].duration_secs <= loud_span
                /\ loop'[s].taken.some
                   => /\ loop'[s].taken.val.duration <= loud_span
                      /\ loop'[s].taken.val.blocks * process_interval
                             <= loud_span]_vars

\* C22: once stop_listening has run its flush section on a running listener
\* whose detector buffer was empty or whose recording duration was below the
\* configured min_speech_duration_secs, stop_listening sends no request.
C22_StopSkipsShortFlush ==
    (/\ stop.pc \in {"clearflag", "abort"}
     /\ \/ stop.buffer_size = 0
        \/ stop.recording_duration < vad_config.min_speech_duration_secs)
    => \A i \in Requests : events[i].by # "stop"

\* The ticks after which as_secs() of the time since onset exceeds the idle
\* timeout.
IdleTimeoutTicks == (IdleTimeoutSecs + 1) * TicksPerSec

\* C23: while the clock runs and process_audio keeps being called, a detector
\* in Processing (whose idle timeout falls within the modelled time) leaves
\* Processing, to Speaking or to Idle; and a detector in Processing always has
\* the onset time its idle timeout is measured from, so that the timeout can
\* take it back to Idle.
C23_ProcessingIsLeft ==
    /\ [](vad.state = "Processing" => vad.speech_start_time # NoTime)
    /\ (/\ vad.state = "Processing"
        /\ vad.speech_start_time + IdleTimeoutTicks <= MaxSeconds * TicksPerSec)
       ~> (vad.state \in {"Idle", "Speaking"})

\* C23 witness: a quiet frame found the idle timeout expired and took the
\* detector from Processing back to Idle.
C23_Witness ==
    /\ ret.op = "process_audio" /\ ret.pre = "Processing" /\ ~ret.loud
    /\ vad = NewVad
    /\ now >= IdleTimeoutTicks

\* C27: in Processing a quiet frame does not reset the detector while the time
\* since Processing was entered is within the idle timeout of 2 s, however
\* long the utterance before it was.  Processing is entered at or after the
\* last loud frame, so a call within 2 s of that frame is within 2 s of the
\* entry.
C27_IdleTimeoutFromProcessingEntry ==
    [][\A c \in DetectorFrames :
         (/\ vad.state = "Processing"
          /\ now - vad.last_voice_time <= IdleTimeoutSecs * TicksPerSec
          /\ ~Exceeds(c)
          /\ CallProcessAudio(c))
         => vad'.state = "Processing"]_vars

\* C24: a listener that was constructed and never started reports, through
\* get_state, is_listening = false, vad_state = Idle, buffer_size = 0 and
\* recording_duration = 0, whenever it is asked.
C24_NewListenerState ==
    sessions = 0
    => get_state = [vad_state |-> "Idle", is_listening |-> FALSE,
                    recording_duration |-> 0, buffer_size |-> 0]

\* C24 witness: a listener that was never started, some time after its
\* construction and after a stop_listening that found nothing to stop.
C24_Witness ==
    /\ sessions = 0
    /\ last_call = "stop_noop"
    /\ now > 1
    /\ get_state.vad_state = "Idle"

\* C25: on the tick that moves the detector from Speaking to Processing with
\* the minimum-duration check failing (process_audio returns false) the poll
\* loop sends no event and keeps no audio for a request.
C25_ShortUtteranceDroppedSilently ==
    [][\A s \in Sessions :
         LET p == process_audio(vad, vad_config, loop[s].audio_chunk, now)
         IN  (/\ LoopVad(s)
              /\ vad.state = "Speaking"
              /\ p.vad.state = "Processing"
              /\ ~p.ret)
             => /\ events' = events
                /\ ~loop'[s].taken.some]_vars

\* C26: while Processing, process_audio on a frame whose RMS exceeds the
\* threshold returns false, moves to Speaking, sets onset and last-loud time
\* to now and leaves the buffer equal to exactly that frame: the samples of
\* the finished utterance are gone.
C26_LoudFrameRestartsUtterance ==
    [][\A c \in DetectorFrames :
         (/\ vad.state = "Processing"
          /\ Exceeds(c)
          /\ CallProcessAudio(c))
         => /\ ret'.val = FALSE
            /\ vad'.state = "Speaking"
            /\ vad'.speech_start_time = now
            /\ vad'.last_voice_time = now
            /\ vad'.audio_buffer = c
            /\ ret'.dropped = Len(vad.audio_buffer)]_vars

\* C26 witness: a loud frame arrived in Processing, later than the onset of
\* the finished utterance, while that utterance's samples were still in the
\* buffer; the buffer now holds the one block of the new frame.
C26_Witness ==
    /\ ret.op = "process_audio" /\ ret.pre = "Processing" /\ ret.loud
    /\ ret.dropped > 0
    /\ vad.state = "Speaking"
    /\ vad.speech_start_time = now
    /\ now > 1
    /\ Len(vad.audio_buffer) = 1

\* stop_listening has returned for session s: the task handle is gone and the
\* caller is outside stop_listening.
StopReturned(s) ==
    /\ s <= sessions
    /\ listen_task # s
    /\ stop.pc = "idle"

\* C28: once stop_listening has returned, no step of that session's poll loop
\* changes the detector or sends an event.
C28_NoLoopEffectAfterStop ==
    [][\A s \in Sessions :
         (/\ StopReturned(s)
          /\ \/ LoopVad(s)
             \/ \E r \in {"Ok", "Err"} : LoopResample(s, r))
         => UNCHANGED <<vad, events>>]_vars

\* The step sends SpeechStarted, and nothing else.
SpeechStartedSent ==
    /\ Len(events') = Len(events) + 1
    /\ events'[Len(events')].type = "SpeechStarted"

\* C29: a step sends SpeechStarted exactly when it is a tick of the poll loop
\* that takes the detector from Idle or Processing into Speaking, and then it
\* sends it once, as the only event of that tick; nothing else takes the
\* detector into Speaking.
C29_SpeechStartedPerOnset ==
    [][LET into == vad.state # "Speaking" /\ vad'.state = "Speaking"
       IN  /\ SpeechStartedSent <=> into
           /\ into => \E s \in DOMAIN loop : LoopVad(s)]_vars

\* C29 witness: SpeechStarted was sent for an onset from Idle, two further
\* frames of that utterance were processed with no SpeechStarted, and it was
\* sent again for the utterance that began in Processing.
C29_Witness ==
    /\ Len(events) = 3
    /\ events[1].type = "SpeechStarted"
    /\ events[2].type = "SpeechEnded"
    /\ events[3].type = "SpeechStarted"
    /\ pushed = 4
    /\ vad.state = "Speaking"
    /\ vad.speech_start_time = now

\* C30: a tick of the poll loop whose drain is empty goes back to the top of
\* the loop and leaves detector and channel alone, and the loop reaches its
\* call of process_audio only with a chunk that is not empty: without frames
\* no timeout of the detector fires.
C30_EmptyDrainSkipsVad ==
    /\ [](\A s \in Sessions : loop[s].pc = "vad" => loop[s].audio_chunk # <<>>)
    /\ [][\A s \in Sessions :
            (/\ loop[s].pc = "sleep"
             /\ rec[s].audio_buffer = <<>>
             /\ LoopDrain(s))
            => /\ loop'[s].pc = "check"
               /\ UNCHANGED <<vad, events>>]_vars

\* C30 witness: a running listener is still Speaking although the last loud
\* frame is more than silence_duration_secs ago: no frame has arrived since,
\* and the poll loop, which went through the top of its cycle after that
\* frame, is asleep again.
C30_Witness ==
    \E s \in Sessions :
        /\ is_listening
        /\ vad.state = "Speaking"
        /\ now - vad.last_voice_time > vad_config.silence_duration_secs
        /\ rec[s].audio_buffer = <<>>
        /\ loop[s].pc = "sleep"
        /\ loop[s].wake > vad.last_voice_time + process_interval

\* C31: the stream callback takes the sample-buffer mutex and no other; the
\* polling thread holds the sample-buffer mutex only inside start_recording's
\* clear and take_audio_data's swap, never together with the state mutex; the
\* caller of the API never takes it.  So a callback that wants the
\* sample-buffer mutex gets it unless the polling thread is inside the swap,
\* whoever holds the state mutex.
C31_CallbackNeverWaitsOnState ==
    /\ mutex["state"] # "callback"
    /\ thread["callback"].pc \in {"idle", "locked"}
    /\ mutex["audio_buffer"] # "caller"
    /\ mutex["audio_buffer"] = "loop"
       => /\ thread["loop"].pc \in {"clear_locked", "drain_locked"}
          /\ mutex["state"] # "loop"
    /\ \A s \in Sessions :
          (rec[s].stream /\ At("callback", "idle") /\ ~At("loop", "drain_locked"))
          => ENABLED StreamCallbackLock(s)

\* C31 witness: the polling thread is inside its section under the state
\* mutex, stop_listening waits for that mutex, and the callback is inside its
\* push.
C31_Witness ==
    /\ mutex["state"] = "loop" /\ At("loop", "vad_locked")
    /\ At("caller", "flush_lock")
    /\ mutex["audio_buffer"] = "callback" /\ At("callback", "locked")

\* C32: while Speaking, every call of process_audio appends the whole frame to
\* the buffer, whether the call goes on or finalizes, and drops nothing; a
\* take after the finalize returns that buffer whole.  With the onset (C13)
\* the buffer taken is the frames from onset to the finalizing one, in order.
C32_SpeakingAppendsEveryFrame ==
    [][/\ \A c \in DetectorFrames :
            (vad.state = "Speaking" /\ CallProcessAudio(c))
            => /\ vad'.audio_buffer = vad.audio_buffer \o c
               /\ ret'.dropped = 0
       /\ (vad.state = "Processing" /\ CallTakeAudioBuffer)
          => ret'.val = vad.audio_buffer]_vars

\* C32 witness: the buffer taken after a finalize by silence holds the loud
\* start of the utterance followed by the quiet samples that came after it.
C32_Witness ==
    /\ ret.op = "take_audio_buffer" /\ ret.pre = "Processing"
    /\ Len(ret.val) = 2
    /\ ret.val[1] > vad_config.volume_threshold
    /\ ret.val[2] <= vad_config.volume_threshold
    /\ now - vad.last_voice_time > vad_config.silence_duration_secs
    /\ vad.state = "Processing"

\* C33: between the sections under the state mutex (every state of the
\* listener: each section is one step) a detector buffer that is not empty
\* belongs to a detector that is Speaking.
C33_BufferedAudioIsLive ==
    vad.audio_buffer # <<>> => vad.state = "Speaking"

\* C33 witness: the poll loop finalized an utterance and took its audio, and
\* the flush section of a stop_listening that came next found the detector in
\* Processing with nothing to flush.
C33_Witness ==
    /\ vad.state = "Processing"
    /\ vad.audio_buffer = <<>>
    /\ stop.pc = "send"
    /\ stop.buffer_size = 0
    /\ stop.recording_duration >= FlushMinDuration
    /\ \E i \in DOMAIN events : events[i].type = "SpeechEnded"

\* The polling task of session s is in its loop, with its stream open.
Polling(s) ==
    /\ rec[s].stream
    /\ loop[s].pc \in {"check", "sleep", "vad", "resample"}

\* C34: at most one polling loop, with its capture stream, is active at a
\* time, also when the listener is stopped and started again.
C34_OnePollingLoop ==
    \A s, t \in DOMAIN loop : Polling(s) /\ Polling(t) => s = t

\* C37: a start_listening that starts a session leaves the detector Idle with
\* an empty buffer and both timers unset, whatever the session before left in
\* it; the teardown of stop_listening leaves the detector as it is.
C37_StartResetsDetector ==
    [][/\ (start_listening /\ listen_task = 0)
          => /\ vad' = NewVad
             /\ get_state'.recording_duration = 0
             /\ get_state'.buffer_size = 0
       /\ (StopClearFlag \/ \E started \in BOOLEAN : StopAbort(started))
          => vad' = vad]_vars

\* C37 witness: the first session was stopped while its utterance was going
\* on (its last event is SpeechStarted, its polling task has ended), and the
\* second session has just been started with a detector that is as new.
C37_Witness ==
    /\ sessions = 2
    /\ last_call = "start"
    /\ loop[1].pc = "done"
    /\ loop[2].pc = "open"
    /\ events # <<>>
    /\ events[Len(events)].type = "SpeechStarted"
    /\ vad = NewVad

\* C35: process_audio returns true only on a call that takes the detector
\* from Speaking to Processing; a call made in Idle or in Processing returns
\* false.
C35_TrueOnlyOnFinalize ==
    [][\A c \in DetectorFrames :
         CallProcessAudio(c)
         => /\ ret'.val => (vad.state = "Speaking" /\ vad'.state = "Processing")
            /\ vad.state \in {"Idle", "Processing"} => ~ret'.val]_vars

\* C35 witness: a quiet frame was processed in Processing, after the call
\* that finalized, and returned false; the utterance, at least the configured
\* minimum long when its last loud frame came, is still in the buffer.
C35_Witness ==
    /\ ret.op = "process_audio" /\ ret.pre = "Processing" /\ ~ret.loud
    /\ ret.val = FALSE
    /\ vad.state = "Processing"
    /\ vad.audio_buffer # <<>>
    /\ vad.last_voice_time - vad.speech_start_time
           >= vad_config.min_speech_duration_secs

\* C36: under every sequence of process_audio, take_audio_buffer and reset,
\* an Idle detector has an empty buffer and both timers unset, and a Speaking
\* or Processing detector has its onset time set and its last-loud time set
\* and not earlier than the onset.
C36_DetectorInvariant ==
    /\ vad.state = "Idle" => vad.audio_buffer = <<>> /\ TimersUnset(vad)
    /\ vad.state \in {"Speaking", "Processing"}
       => /\ vad.speech_start_time # NoTime
          /\ vad.last_voice_time # NoTime
          /\ vad.last_voice_time >= vad.speech_start_time
          /\ now - vad.last_voice_time <= now - vad.speech_start_time

\* C36 witness: a finalized utterance whose last loud frame came after its
\* onset, with its buffer taken.
C36_Witness ==
    /\ ret.op = "take_audio_buffer" /\ ret.pre = "Processing"
    /\ ret.val # <<>>
    /\ vad.state = "Processing"
    /\ vad.last_voice_time > vad.speech_start_time
    /\ vad.speech_start_time > 0

\* The events the polling task of session s has sent, in send order.
LoopEvents(s) ==
    SelectSeq(events, LAMBDA e : /\ e.chan = s
                                 /\ \/ e.type \in {"SpeechStarted", "SpeechEnded"}
                                    \/ IsRequest(e) /\ e.by = "loop")

\* C38: the events of one session's polling task are SpeechStarted,
\* SpeechEnded and an optional request, repeated: the first is SpeechStarted,
\* SpeechStarted follows only a SpeechEnded or a request, SpeechEnded follows
\* only a SpeechStarted, and a request follows only a SpeechEnded.
C38_LoopEventsAlternate ==
    \A s \in DOMAIN loop :
        LET es == LoopEvents(s)
        IN  \A i \in DOMAIN es :
                /\ es[i].type = "SpeechStarted"
                   => i = 1 \/ es[i - 1].type # "SpeechStarted"
                /\ es[i].type = "SpeechEnded"
                   => i > 1 /\ es[i - 1].type = "SpeechStarted"
                /\ IsRequest(es[i])
                   => i > 1 /\ es[i - 1].type = "SpeechEnded"

\* The request of stop_listening's flush is among the events in seq.
HasStopRequest(seq) ==
    \E i \in DOMAIN seq : IsRequest(seq[i]) /\ seq[i].by = "stop"

\* C39: the request that stop_listening's flush has sent is eventually handed
\* to the event callback, also when stop_listening has cleared its event sink
\* before the consumer task got to it.
C39_StopRequestIsDelivered ==
    HasStopRequest(events) ~> HasStopRequest(callback)

\* C39 witness: stop_listening has returned and cleared its sink, the polling
\* task has ended, and the callback has received every event of the channel,
\* the request of the flush last.
C39_Witness ==
    \E s \in Sessions :
        /\ event_tx = 0 /\ listen_task = 0 /\ stop.pc = "idle"
        /\ loop[s].pc = "done"
        /\ rx[s] = Len(ChannelEvents(s))
        /\ callback # <<>>
        /\ IsRequest(callback[Len(callback)])
        /\ callback[Len(callback)].by = "stop"

====
